---- MODULE Spec2Model ----
(***************************************************************************)
(* Dialect-conversion patterns of                                          *)
(*   iree/compiler/Conversion/LinalgToLLVMGPU/ConvertToLLVM.cpp   (GPU)    *)
(*   iree/compiler/Dialect/VM/Conversion/StandardToVM/                     *)
(*                                    ConvertStandardToVM.cpp     (VM)     *)
(* driven over a small IR arena by a document-order legalization driver.   *)
(*                                                                         *)
(* The IR is a sequence of operation records addressed by index.  Every    *)
(* record has name, parent (0 = no parent), erased, repl (the operations   *)
(* whose results replace it) and loc (the source location: the index of    *)
(* the input operation it stems from); the other fields depend on name.    *)
(***************************************************************************)
EXTENDS Integers, Sequences, FiniteSets, TLC

VARIABLES
  ir,         \* the operations of the module under conversion
  patterns,   \* the OwningRewritePatternList filled by populate*Patterns
  toConvert,  \* the operations the driver legalizes, in document order
  pc,         \* position of the driver in toConvert
  status,     \* "running", "success", "failed" (terminal legalization failure), "crashed"
  remarks,    \* diagnostics emitted with emitRemark: records [op, msg]
  output,     \* the module handed downstream: <<>> while none is produced
  ndebug,     \* TRUE when the build compiles assert() away (NDEBUG)
  target,     \* the conversion target of the run: "llvm" or "vm"
  useROCM     \* the backend flag given to populateLLVMConversionPatterns

vars == <<ir, patterns, toConvert, pc, status, remarks, output, ndebug, target, useROCM>>

----------------------------------------------------------------------------
(* Bounds of the enumerated inputs *)

MaxRefs == 3      \* binding references in a GPU function body
MaxBinding == 2   \* largest declared numeric binding index
MaxQueries == 2   \* workgroup queries in a GPU function body
MaxDepth == 3     \* nesting depth of the module programs
MaxConst == 2     \* 32-bit constants range over -MaxConst..MaxConst (and a few extremes)

----------------------------------------------------------------------------
(* Integer representations *)

\* A 64-bit signed attribute value v is kept as [hi, lo] with
\* v = hi * 2^32 + lo and lo in the int32 range.
Int64(h, l) == [hi |-> h, lo |-> l]

\* static_cast<int32_t>(int64): keeps the low 32 bits.
TruncToInt32(v) == v.lo

\* The bits of an APInt of at most 32 bits are kept as two 16-bit limbs,
\* bits = hi * 2^16 + lo.  Bits32(s): the 32-bit two's complement pattern of s.
Bits32(s) == [hi |-> (s \div 65536) % 65536, lo |-> s % 65536]

\* APInt::getSExtValue() of an integer attribute of width 1..16 or 32.
getSExtValue(a) ==
  IF a.type.width = 32
  THEN (IF a.hi >= 32768 THEN a.hi - 65536 ELSE a.hi) * 65536 + a.lo
  ELSE IF a.lo >= 2 ^ (a.type.width - 1) THEN a.lo - 2 ^ a.type.width ELSE a.lo

\* IntegerAttr::getInt(): the sign-extended value.
getInt(a) == getSExtValue(a)

IntegerType(w) == [kind |-> "integer", width |-> w, signedness |-> "signless"]

IntegerAttr(w, s) ==
  [kind |-> "integer", type |-> IntegerType(w), hi |-> Bits32(s).hi, lo |-> Bits32(s).lo]

----------------------------------------------------------------------------
(* IR helpers *)

RECURSIVE SortedSeq(_)
SortedSeq(S) ==
  IF S = {} THEN <<>>
  ELSE LET m == CHOOSE x \in S : \A y \in S : x <= y
       IN <<m>> \o SortedSeq(S \ {m})

\* Is a a proper ancestor of id?
RECURSIVE IsProperAncestor(_, _, _)
IsProperAncestor(irx, a, id) ==
  IF irx[id].parent = 0 THEN FALSE
  ELSE irx[id].parent = a \/ IsProperAncestor(irx, a, irx[id].parent)

\* Operation::getParentOfType<T>(): nearest enclosing operation named n, 0 if none.
RECURSIVE getParentOfType(_, _, _)
getParentOfType(irx, id, n) ==
  IF irx[id].parent = 0 THEN 0
  ELSE IF irx[irx[id].parent].name = n THEN irx[id].parent
  ELSE getParentOfType(irx, irx[id].parent, n)

\* funcOp.walk([&](OpTy) ...): the live operations named n nested under root, in
\* document order.  Operations of the walked kind have no regions, so the
\* walk's order among them is their document order.
walk(irx, root, n) ==
  SortedSeq({i \in DOMAIN irx :
               /\ irx[i].name = n
               /\ ~irx[i].erased
               /\ IsProperAncestor(irx, root, i)})

\* Region::takeBody / inlineRegionBefore: the live operations directly under
\* from now sit under to.
moveBody(irx, from, to) ==
  [i \in DOMAIN irx |->
     IF irx[i].parent = from /\ ~irx[i].erased
     THEN [irx[i] EXCEPT !.parent = to]
     ELSE irx[i]]

\* replaceOp / eraseOp: the operation is erased, its results replaced by those of r.
replaceOp(irx, id, r) == [irx EXCEPT ![id].erased = TRUE, ![id].repl = r]

\* SymbolTable::lookupNearestSymbolFrom: the declaration carrying the symbol.
lookupNearestSymbolFrom(irx, sym) ==
  CHOOSE i \in DOMAIN irx : irx[i].name = "IREE::HAL::InterfaceBindingOp" /\ irx[i].sym_name = sym

\* FuncOp::isPublic(): no visibility attribute, or "public".
isPublic(op) ==
  \/ "sym_visibility" \notin DOMAIN op.attrs
  \/ op.attrs["sym_visibility"] = "public"

----------------------------------------------------------------------------
(* GPU pattern library: ConvertToLLVM.cpp *)

LLVMPointerType(elType, space) == [kind |-> "ptr", elementType |-> elType, addressSpace |-> space]

\* Mutant: the body is moved with Region::takeBody, behind the rewriter's back.
inlineRegionBefore_TakeBody(irx, from, to) ==
  [ir |-> moveBody(irx, from, to), undone |-> moveBody(irx, from, to)]

\* rewriter.inlineRegionBefore(region, parent, before): the body of operation
\* from becomes the body of operation to.  The rewriter records the move, so
\* undoing its edits puts the body back.
inlineRegionBefore(irx, from, to) ==
  [ir |-> moveBody(irx, from, to), undone |-> irx]

\* Undoing rewriter.create: the operations created after the first n are
\* destroyed, with whatever is nested in them at that time.
undoCreate(irx, n) ==
  [i \in 1..n |->
     IF irx[i].parent > n THEN [irx[i] EXCEPT !.erased = TRUE, !.parent = 0] ELSE irx[i]]

\* ConvertFunc::matchAndRewrite.  Returns the pattern's result and the IR as
\* the pattern left it; on failure also the IR as it is once the rewriter has
\* undone the edits made through it.
ConvertFunc(irx, id) ==
  LET funcOp == irx[id]
      inputs == walk(irx, id, "IREE::HAL::InterfaceBindingSubspanOp")
      llvmInputTypes ==
        [i \in 1..Len(inputs) |->
           LLVMPointerType(irx[inputs[i]].type.elementType,
                           irx[inputs[i]].type.memorySpace)]
      funcAttrs == [n \in DOMAIN funcOp.attrs \ {"sym_name", "type"} |-> funcOp.attrs[n]]
      newId == Len(irx) + 1
      newFuncOp == [name |-> "LLVM::LLVMFuncOp", parent |-> funcOp.parent, erased |-> FALSE,
                    repl |-> <<>>, loc |-> funcOp.loc,
                    sym_name |-> funcOp.attrs["sym_name"],
                    args |-> llvmInputTypes, linkage |-> "external",
                    attrs |-> funcAttrs]
      moved == inlineRegionBefore(Append(irx, newFuncOp), id, newId)
      inlined == moved.ir
  IN IF ~isPublic(funcOp) THEN [result |-> "failure", ir |-> irx, undone |-> irx]
     ELSE IF ~funcOp.regionTypesConvertible
          THEN [result |-> "failure", ir |-> inlined,
                undone |-> undoCreate(moved.undone, Len(irx))]
     ELSE [result |-> "success", ir |-> replaceOp(inlined, id, <<>>)]

\* ConvertIREEBindingOp::matchAndRewrite.  nd: the build has NDEBUG; ub: what
\* reading a block argument past the end does in this build ("crash" or
\* "garbage", the latter a value that is no parameter, written arg = -1).
ConvertIREEBindingOp(irx, id, nd, ub) ==
  LET op == irx[id]
      llvmFuncOp == getParentOfType(irx, id, "LLVM::LLVMFuncOp")
      memrefType == op.type
      symbol == lookupNearestSymbolFrom(irx, op.binding)
      k == irx[symbol].binding
      numArgs == Len(irx[llvmFuncOp].args)
      llvmBufferBasePtr == [func |-> llvmFuncOp, arg |-> IF k < numArgs THEN k ELSE -1]
      newId == Len(irx) + 1
      desc == [name |-> "MemRefDescriptor", parent |-> op.parent, erased |-> FALSE,
               repl |-> <<>>, loc |-> op.loc,
               type |-> memrefType, base |-> llvmBufferBasePtr]
  IN IF llvmFuncOp = 0 THEN [result |-> "failure", ir |-> irx, undone |-> irx]
     ELSE IF ~nd /\ numArgs = 0 THEN [result |-> "crash", ir |-> irx]
     ELSE IF k >= numArgs /\ ub = "crash" THEN [result |-> "crash", ir |-> irx]
     ELSE IF memrefType.hasStaticShape
          THEN [result |-> "success", ir |-> replaceOp(Append(irx, desc), id, <<newId>>)]
     ELSE IF ~nd THEN [result |-> "crash", ir |-> irx]
     ELSE [result |-> "success", ir |-> irx]

\* HALInterfaceWorkgroupOpsConverter<InterfaceOpTy, XOp, YOp, ZOp>::matchAndRewrite,
\* p the registered instance.
HALInterfaceWorkgroupOpsConverter(irx, id, p) ==
  LET op == irx[id]
      index == TruncToInt32(op.dimension)
      n1 == Len(irx) + 1
      n2 == Len(irx) + 2
      read(n) == [name |-> n, parent |-> op.parent, erased |-> FALSE, repl |-> <<>>,
                  loc |-> op.loc, type |-> "i32"]
      sext == [name |-> "LLVM::SExtOp", parent |-> op.parent, erased |-> FALSE, repl |-> <<>>,
               loc |-> op.loc, type |-> "i64", operand |-> n1]
      done(n) == [result |-> "success",
                  ir |-> replaceOp(Append(Append(irx, read(n)), sext), id, <<n2>>)]
  IN CASE index = 0 -> done(p.XOp)
       [] index = 1 -> done(p.YOp)
       [] index = 2 -> done(p.ZOp)
       [] OTHER -> [result |-> "failure", ir |-> irx, undone |-> irx]

WorkgroupPattern(root, x, y, z) ==
  [pattern |-> "HALInterfaceWorkgroupOpsConverter", root |-> root, benefit |-> 1,
   XOp |-> x, YOp |-> y, ZOp |-> z]

\* The instances populateLLVMConversionPatterns inserts when useROCM is set
ROCDLPatterns ==
  {WorkgroupPattern("IREE::HAL::InterfaceWorkgroupIDOp",
                    "ROCDL::BlockIdXOp", "ROCDL::BlockIdYOp", "ROCDL::BlockIdZOp"),
   WorkgroupPattern("IREE::HAL::InterfaceWorkgroupCountOp",
                    "ROCDL::GridDimXOp", "ROCDL::GridDimYOp", "ROCDL::GridDimZOp"),
   WorkgroupPattern("IREE::HAL::InterfaceWorkgroupSizeOp",
                    "ROCDL::BlockDimXOp", "ROCDL::BlockDimYOp", "ROCDL::BlockDimZOp")}

\* ... and when it is not
NVVMPatterns ==
  {WorkgroupPattern("IREE::HAL::InterfaceWorkgroupIDOp",
                    "NVVM::BlockIdXOp", "NVVM::BlockIdYOp", "NVVM::BlockIdZOp"),
   WorkgroupPattern("IREE::HAL::InterfaceWorkgroupCountOp",
                    "NVVM::GridDimXOp", "NVVM::GridDimYOp", "NVVM::GridDimZOp"),
   WorkgroupPattern("IREE::HAL::InterfaceWorkgroupSizeOp",
                    "NVVM::BlockDimXOp", "NVVM::BlockDimYOp", "NVVM::BlockDimZOp")}

FuncAndBindingPatterns ==
  {[pattern |-> "ConvertFunc", root |-> "FuncOp", benefit |-> 100],
   [pattern |-> "ConvertIREEBindingOp", root |-> "IREE::HAL::InterfaceBindingSubspanOp",
    benefit |-> 1]}

\* Mutant: the backend flag is ignored.
populateLLVMConversionPatterns_IgnoreFlag(rocm) == FuncAndBindingPatterns \cup NVVMPatterns

\* populateLLVMConversionPatterns(context, patterns, converter, useROCM)
populateLLVMConversionPatterns(rocm) ==
  FuncAndBindingPatterns \cup (IF rocm THEN ROCDLPatterns ELSE NVVMPatterns)

----------------------------------------------------------------------------
(* VM pattern library: ConvertStandardToVM.cpp *)

\* A new operation created at the place of src.
NewOp(n, src) ==
  [name |-> n, parent |-> src.parent, erased |-> FALSE, repl |-> <<>>, loc |-> src.loc]

\* Mutant: every module is taken for a nested one.
isTopLevelModule_Never(irx, id) == FALSE

\* !srcOp.getParentOp() || !isa<ModuleOp>(srcOp.getParentOp())
isTopLevelModule(irx, id) ==
  irx[id].parent = 0 \/ irx[irx[id].parent].name # "ModuleOp"

\* isa<IREE::VM::ModuleOp>(srcOp.getParentOp()).  A module terminator always
\* has a parent operation.
isInVMModule(irx, id) == irx[irx[id].parent].name = "IREE::VM::ModuleOp"

\* ModuleOpConversion::matchAndRewrite.  sym_name = "" stands for a module
\* without a name.
ModuleOpConversion(irx, id) ==
  LET srcOp == irx[id]
      newId == Len(irx) + 1
      newModuleOp == NewOp("IREE::VM::ModuleOp", srcOp) @@
                     [sym_name |-> IF srcOp.sym_name # "" THEN srcOp.sym_name ELSE "module"]
  IN IF isTopLevelModule(irx, id) THEN [result |-> "failure", ir |-> irx, undone |-> irx]
     ELSE [result |-> "success",
           ir |-> replaceOp(moveBody(Append(irx, newModuleOp), id, newId), id, <<>>)]

\* ModuleTerminatorOpConversion::matchAndRewrite
ModuleTerminatorOpConversion(irx, id) ==
  LET srcOp == irx[id]
      newId == Len(irx) + 1
  IN IF ~isInVMModule(irx, id) THEN [result |-> "failure", ir |-> irx, undone |-> irx]
     ELSE [result |-> "success",
           ir |-> replaceOp(Append(irx, NewOp("IREE::VM::ModuleTerminatorOp", srcOp)), id, <<newId>>)]

\* Mutant: the export marker is retained too.
kRetainedAttributes_WithExport == <<"iree.reflection", "sym_visibility", "iree.module.export">>

\* Whitelist of function attributes to retain when converting to vm.func.
kRetainedAttributes == <<"iree.reflection", "sym_visibility">>

\* VMTypeConverter::convertType: integers of at most 32 bits become i32; anything
\* else does not convert ("none").
convertType(t) ==
  IF t.kind = "integer" /\ t.width <= 32 THEN IntegerType(32) ELSE [kind |-> "none"]

\* VMTypeConverter::convertTypes / convertSignatureArg over a list of types:
\* fails as a whole when one element fails.
convertTypes(ts) ==
  IF \E i \in DOMAIN ts : convertType(ts[i]).kind = "none"
  THEN [ok |-> FALSE, types |-> <<>>]
  ELSE [ok |-> TRUE, types |-> [i \in DOMAIN ts |-> convertType(ts[i])]]

\* Mutant: the override of the exported name is ignored.
exportNameFor_NoOverride(exportAttr, funcName) == funcName

\* The name the function is exported under: the marker's string if it is a
\* StringAttr, the function's own name otherwise.
exportNameFor(exportAttr, funcName) ==
  IF exportAttr.kind = "string" THEN exportAttr.value ELSE funcName

\* FuncOpConversion::matchAndRewrite.  nd: the build has NDEBUG.
FuncOpConversion(irx, id, nd) ==
  LET srcOp == irx[id]
      srcFuncType == srcOp.type
      signatureConversion == convertTypes(srcFuncType.inputs)
      convertedResultTypes == convertTypes(srcFuncType.results)
      newFuncType == [inputs |-> signatureConversion.types,
                      results |-> convertedResultTypes.types]
      newId == Len(irx) + 1
      retained == {kRetainedAttributes[i] : i \in DOMAIN kRetainedAttributes}
                    \cap DOMAIN srcOp.attrs
      newFuncOp == NewOp("IREE::VM::FuncOp", srcOp) @@
                   [type |-> newFuncType,
                    args |-> signatureConversion.types,
                    attrs |-> [n \in {"sym_name"} \cup retained |-> srcOp.attrs[n]]]
      inlined == inlineRegionBefore(Append(irx, newFuncOp), id, newId).ir
      exported == "iree.module.export" \in DOMAIN srcOp.attrs
      exportAttr == srcOp.attrs["iree.module.export"]
      exportName == exportNameFor(exportAttr, newFuncOp.attrs["sym_name"].value)
      exportOp == NewOp("IREE::VM::ExportOp", srcOp) @@
                  [function_ref |-> newId, export_name |-> exportName]
  IN IF ~signatureConversion.ok THEN [result |-> "failure", ir |-> irx, undone |-> irx]
     ELSE IF ~convertedResultTypes.ok THEN [result |-> "failure", ir |-> irx, undone |-> irx]
     ELSE IF ~exported THEN [result |-> "success", ir |-> replaceOp(inlined, id, <<>>)]
     ELSE IF exportAttr.kind \notin {"string", "unit"} /\ ~nd
          THEN [result |-> "crash", ir |-> irx]
     ELSE [result |-> "success", ir |-> replaceOp(Append(inlined, exportOp), id, <<>>)]

\* ReturnOpConversion::matchAndRewrite
ReturnOpConversion(irx, id, operands) ==
  [result |-> "success",
   ir |-> replaceOp(Append(irx, NewOp("IREE::VM::ReturnOp", irx[id]) @@ [operands |-> operands]),
                    id, <<Len(irx) + 1>>)]

\* Mutant: every width up to 32 bits is accepted.
unsupportedBitWidth_Above32(numBits) == numBits > 32

\* numBits != 1 && numBits != 32
unsupportedBitWidth(numBits) == numBits # 1 /\ numBits # 32

\* ConstantOpConversion::matchAndRewrite.  remarks: the diagnostics it emits.
ConstantOpConversion(irx, id) ==
  LET srcOp == irx[id]
      integerAttr == srcOp.value
      numBits == integerAttr.type.width
      intValue == getInt(integerAttr)
      newId == Len(irx) + 1
      zero == NewOp("IREE::VM::ConstI32ZeroOp", srcOp)
      const == NewOp("IREE::VM::ConstI32Op", srcOp) @@ [value |-> intValue]
  IN IF srcOp.value.kind # "integer"
     THEN [result |-> "failure", ir |-> irx, undone |-> irx,
           remarks |-> {[op |-> id, msg |-> "unsupported const type for dialect"]}]
     ELSE IF unsupportedBitWidth(numBits)
     THEN [result |-> "failure", ir |-> irx, undone |-> irx,
           remarks |-> {[op |-> id, msg |-> "unsupported bit width for dialect constant"]}]
     ELSE IF intValue = 0
     THEN [result |-> "success", ir |-> replaceOp(Append(irx, zero), id, <<newId>>),
           remarks |-> {}]
     ELSE [result |-> "success", ir |-> replaceOp(Append(irx, const), id, <<newId>>),
           remarks |-> {}]

\* Mutant: unsigned less-or-equal takes the signed instruction.
CmpIOpConversionTarget_SignedUle(predicate) ==
  CASE predicate = "eq" -> "IREE::VM::CmpEQI32Op"
    [] predicate = "ne" -> "IREE::VM::CmpNEI32Op"
    [] predicate = "slt" -> "IREE::VM::CmpLTI32SOp"
    [] predicate = "sle" -> "IREE::VM::CmpLTEI32SOp"
    [] predicate = "sgt" -> "IREE::VM::CmpGTI32SOp"
    [] predicate = "sge" -> "IREE::VM::CmpGTEI32SOp"
    [] predicate = "ult" -> "IREE::VM::CmpLTI32UOp"
    [] predicate = "ule" -> "IREE::VM::CmpLTEI32SOp"
    [] predicate = "ugt" -> "IREE::VM::CmpGTI32UOp"
    [] predicate = "uge" -> "IREE::VM::CmpGTEI32UOp"

\* The VM operation CmpIOpConversion instantiates for a predicate.
CmpIOpConversionTarget(predicate) ==
  CASE predicate = "eq" -> "IREE::VM::CmpEQI32Op"
    [] predicate = "ne" -> "IREE::VM::CmpNEI32Op"
    [] predicate = "slt" -> "IREE::VM::CmpLTI32SOp"
    [] predicate = "sle" -> "IREE::VM::CmpLTEI32SOp"
    [] predicate = "sgt" -> "IREE::VM::CmpGTI32SOp"
    [] predicate = "sge" -> "IREE::VM::CmpGTEI32SOp"
    [] predicate = "ult" -> "IREE::VM::CmpLTI32UOp"
    [] predicate = "ule" -> "IREE::VM::CmpLTEI32UOp"
    [] predicate = "ugt" -> "IREE::VM::CmpGTI32UOp"
    [] predicate = "uge" -> "IREE::VM::CmpGTEI32UOp"

\* CmpIOpConversion::matchAndRewrite; operands are the converted operands.
CmpIOpConversion(irx, id, operands) ==
  LET srcOp == irx[id]
      returnType == IntegerType(32)
      cmp == NewOp(CmpIOpConversionTarget(srcOp.predicate), srcOp) @@
             [type |-> returnType, operands |-> <<operands[1], operands[2]>>]
  IN [result |-> "success", ir |-> replaceOp(Append(irx, cmp), id, <<Len(irx) + 1>>)]

\* template parameter kBits of ShiftArithmeticOpConversion
kBits == 32

\* matchPattern(value, m_ConstantInt(&amount)): the value is the result of a
\* constant operation; amount is its 32-bit pattern.
matchConstantInt(irx, v) ==
  IF v.def = 0 THEN [matched |-> FALSE, amount |-> Bits32(0)]
  ELSE LET d == irx[v.def]
       IN CASE d.name = "IREE::VM::ConstI32Op" -> [matched |-> TRUE, amount |-> Bits32(d.value)]
            [] d.name = "IREE::VM::ConstI32ZeroOp" -> [matched |-> TRUE, amount |-> Bits32(0)]
            [] d.name = "ConstantOp" /\ d.value.kind = "integer" ->
                 [matched |-> TRUE, amount |-> [hi |-> d.value.hi, lo |-> d.value.lo]]
            [] OTHER -> [matched |-> FALSE, amount |-> Bits32(0)]

Type_isSignlessInteger(t) == t.kind = "integer" /\ t.signedness = "signless"

\* Mutant: the bound on the amount is not checked.
amountExceeds_Unchecked(amount, bits) == FALSE

\* amount.getZExtValue() > kBits, amount held as 16-bit limbs
amountExceeds(amount, bits) == amount.hi > 0 \/ amount.lo > bits

\* IntegerAttr::get(IntegerType::get(8, ctx), amountRaw): an 8-bit attribute
\* keeps the low 8 bits.
amountAttrI8(amount) == amount.lo % 256

\* ShiftArithmeticOpConversion<ShiftLeftOp, VM::ShlI32Op, 32>::matchAndRewrite
ShiftArithmeticOpConversion(irx, id, operands) ==
  LET srcOp == irx[id]
      type == srcOp.type
      m == matchConstantInt(irx, operands[2])
      amountAttr == amountAttrI8(m.amount)
      shl == NewOp("IREE::VM::ShlI32Op", srcOp) @@
             [type |-> type, operands |-> <<operands[1]>>, amount |-> amountAttr]
  IN IF ~Type_isSignlessInteger(type) \/ type.width # kBits
     THEN [result |-> "failure", ir |-> irx, undone |-> irx]
     ELSE IF ~m.matched THEN [result |-> "failure", ir |-> irx, undone |-> irx]
     ELSE IF amountExceeds(m.amount, kBits) THEN [result |-> "failure", ir |-> irx, undone |-> irx]
     ELSE [result |-> "success", ir |-> replaceOp(Append(irx, shl), id, <<Len(irx) + 1>>)]

\* BinaryArithmeticOpConversion<SrcOpTy, DstOpTy>::matchAndRewrite, p the
\* registered instance.
BinaryArithmeticOpConversion(irx, id, operands, p) ==
  LET srcOp == irx[id]
      dst == NewOp(p.DstOp, srcOp) @@
             [type |-> srcOp.type, operands |-> <<operands[1], operands[2]>>]
  IN [result |-> "success", ir |-> replaceOp(Append(irx, dst), id, <<Len(irx) + 1>>)]

\* Value::getType(): the type of an operation's result, or of an argument of
\* the function user is in.
Value_getType(irx, user, v) ==
  IF v.def # 0 THEN irx[v.def].type ELSE irx[irx[user].parent].args[v.arg + 1]

\* SelectI32OpConversion::matchAndRewrite; operands are condition, true value
\* and false value.
SelectI32OpConversion(irx, id, operands) ==
  LET srcOp == irx[id]
      requiredType == IntegerType(kBits)
      sel == NewOp("IREE::VM::SelectI32Op", srcOp) @@
             [type |-> requiredType, operands |-> operands]
  IN IF Value_getType(irx, id, operands[2]) # requiredType
     THEN [result |-> "failure", ir |-> irx, undone |-> irx]
     ELSE [result |-> "success", ir |-> replaceOp(Append(irx, sel), id, <<Len(irx) + 1>>)]

\* CallOpConversion::matchAndRewrite
CallOpConversion(irx, id, operands) ==
  LET srcOp == irx[id]
      resultTypes == convertTypes(srcOp.resultTypes)
      call == NewOp("IREE::VM::CallOp", srcOp) @@
              [callee |-> srcOp.callee, resultTypes |-> resultTypes.types,
               operands |-> operands]
  IN IF ~resultTypes.ok THEN [result |-> "failure", ir |-> irx, undone |-> irx]
     ELSE [result |-> "success", ir |-> replaceOp(Append(irx, call), id, <<Len(irx) + 1>>)]

Pattern(n, root) == [pattern |-> n, root |-> root, benefit |-> 1]

BinaryPattern(root, dst) ==
  [pattern |-> "BinaryArithmeticOpConversion", root |-> root, benefit |-> 1, DstOp |-> dst]

\* The instances of BinaryArithmeticOpConversion the library registers
BinaryArithmeticPatterns ==
  {BinaryPattern("AddIOp", "IREE::VM::AddI32Op"),
   BinaryPattern("SignedDivIOp", "IREE::VM::DivI32SOp"),
   BinaryPattern("UnsignedDivIOp", "IREE::VM::DivI32UOp"),
   BinaryPattern("MulIOp", "IREE::VM::MulI32Op"),
   BinaryPattern("SignedRemIOp", "IREE::VM::RemI32SOp"),
   BinaryPattern("UnsignedRemIOp", "IREE::VM::RemI32UOp"),
   BinaryPattern("SubIOp", "IREE::VM::SubI32Op"),
   BinaryPattern("AndOp", "IREE::VM::AndI32Op"),
   BinaryPattern("OrOp", "IREE::VM::OrI32Op"),
   BinaryPattern("XOrOp", "IREE::VM::XorI32Op")}

\* populateStandardToVMPatterns(context, patterns).  The two branch patterns
\* are not modelled: the IR here has no blocks to branch to.
populateStandardToVMPatterns ==
  BinaryArithmeticPatterns \cup
  {Pattern("CallOpConversion", "CallOp"),
   Pattern("SelectI32OpConversion", "SelectOp"),
   Pattern("CmpIOpConversion", "CmpIOp"),
   Pattern("ConstantOpConversion", "ConstantOp"),
   Pattern("ModuleOpConversion", "ModuleOp"),
   Pattern("ModuleTerminatorOpConversion", "ModuleTerminatorOp"),
   Pattern("FuncOpConversion", "FuncOp"),
   Pattern("ReturnOpConversion", "ReturnOp"),
   Pattern("ShiftArithmeticOpConversion", "ShiftLeftOp")}

----------------------------------------------------------------------------
(* Legalization driver *)

\* Target legality of an operation no pattern rewrote: the source-dialect
\* operations are illegal, a function of the GPU path is illegal exactly when it
\* is an entry point, everything else (the outermost module, declarations,
\* operations of the target dialects) is left alone.
IsLegal(op, tgt) ==
  CASE op.name = "FuncOp" -> tgt = "llvm" /\ ~isPublic(op)
    [] op.name \in {"IREE::HAL::InterfaceBindingSubspanOp", "IREE::HAL::InterfaceWorkgroupIDOp",
                    "IREE::HAL::InterfaceWorkgroupCountOp", "IREE::HAL::InterfaceWorkgroupSizeOp",
                    "ConstantOp", "CmpIOp", "ShiftLeftOp", "ReturnOp",
                    "SelectOp", "CallOp"} -> FALSE
    [] op.name \in {p.root : p \in BinaryArithmeticPatterns} -> FALSE
    [] OTHER -> TRUE

Current == toConvert[pc]

Active == status = "running" /\ pc <= Len(toConvert) /\ ~ir[toConvert[pc]].erased

Registered(n) == {p \in patterns : p.pattern = n /\ p.root = ir[Current].name}

\* The operands handed to a pattern: values of replaced operations are
\* remapped to their replacements.
remapValues(irx, operands) ==
  [i \in DOMAIN operands |->
     IF operands[i].def # 0 /\ irx[operands[i].def].erased /\ irx[operands[i].def].repl # <<>>
     THEN [def |-> irx[operands[i].def].repl[1], arg |-> 0]
     ELSE operands[i]]

\* The driver's reaction to a pattern's result: commit on success, undo the
\* rewriter's edits on failure and fail the run unless the operation is legal.
\* What a pattern did to the IR without the rewriter stays.
Legalize(r) ==
  /\ ir' = CASE r.result = "success" -> r.ir
            [] r.result = "failure" -> r.undone
            [] OTHER -> ir
  /\ pc' = IF r.result = "success" \/ (r.result = "failure" /\ IsLegal(ir[Current], target))
           THEN pc + 1 ELSE pc
  /\ status' = IF r.result = "crash" THEN "crashed"
               ELSE IF r.result = "failure" /\ ~IsLegal(ir[Current], target) THEN "failed"
               ELSE status
  /\ UNCHANGED <<patterns, toConvert, output, ndebug, target, useROCM>>

ConvertFuncStep ==
  /\ Active
  /\ Registered("ConvertFunc") # {}
  /\ Legalize(ConvertFunc(ir, Current))
  /\ UNCHANGED remarks

ConvertIREEBindingOpStep ==
  /\ Active
  /\ Registered("ConvertIREEBindingOp") # {}
  /\ \E ub \in {"crash", "garbage"} :
       Legalize(ConvertIREEBindingOp(ir, Current, ndebug, ub))
  /\ UNCHANGED remarks

HALInterfaceWorkgroupOpsConverterStep ==
  /\ Active
  /\ \E p \in Registered("HALInterfaceWorkgroupOpsConverter") :
       Legalize(HALInterfaceWorkgroupOpsConverter(ir, Current, p))
  /\ UNCHANGED remarks

ModuleOpConversionStep ==
  /\ Active
  /\ Registered("ModuleOpConversion") # {}
  /\ Legalize(ModuleOpConversion(ir, Current))
  /\ UNCHANGED remarks

ModuleTerminatorOpConversionStep ==
  /\ Active
  /\ Registered("ModuleTerminatorOpConversion") # {}
  /\ Legalize(ModuleTerminatorOpConversion(ir, Current))
  /\ UNCHANGED remarks

FuncOpConversionStep ==
  /\ Active
  /\ Registered("FuncOpConversion") # {}
  /\ Legalize(FuncOpConversion(ir, Current, ndebug))
  /\ UNCHANGED remarks

ReturnOpConversionStep ==
  /\ Active
  /\ Registered("ReturnOpConversion") # {}
  /\ Legalize(ReturnOpConversion(ir, Current, remapValues(ir, ir[Current].operands)))
  /\ UNCHANGED remarks

ConstantOpConversionStep ==
  /\ Active
  /\ Registered("ConstantOpConversion") # {}
  /\ LET r == ConstantOpConversion(ir, Current)
     IN /\ Legalize(r)
        /\ remarks' = remarks \cup r.remarks

CmpIOpConversionStep ==
  /\ Active
  /\ Registered("CmpIOpConversion") # {}
  /\ Legalize(CmpIOpConversion(ir, Current, remapValues(ir, ir[Current].operands)))
  /\ UNCHANGED remarks

ShiftArithmeticOpConversionStep ==
  /\ Active
  /\ Registered("ShiftArithmeticOpConversion") # {}
  /\ Legalize(ShiftArithmeticOpConversion(ir, Current,
                                          remapValues(ir, ir[Current].operands)))
  /\ UNCHANGED remarks

BinaryArithmeticOpConversionStep ==
  /\ Active
  /\ \E p \in Registered("BinaryArithmeticOpConversion") :
       Legalize(BinaryArithmeticOpConversion(ir, Current,
                                             remapValues(ir, ir[Current].operands), p))
  /\ UNCHANGED remarks

SelectI32OpConversionStep ==
  /\ Active
  /\ Registered("SelectI32OpConversion") # {}
  /\ Legalize(SelectI32OpConversion(ir, Current, remapValues(ir, ir[Current].operands)))
  /\ UNCHANGED remarks

CallOpConversionStep ==
  /\ Active
  /\ Registered("CallOpConversion") # {}
  /\ Legalize(CallOpConversion(ir, Current, remapValues(ir, ir[Current].operands)))
  /\ UNCHANGED remarks

\* No pattern is registered for the operation: it stays as it is, and the run
\* fails unless it is legal.
NoPattern ==
  /\ Active
  /\ {p \in patterns : p.root = ir[Current].name} = {}
  /\ pc' = IF IsLegal(ir[Current], target) THEN pc + 1 ELSE pc
  /\ status' = IF IsLegal(ir[Current], target) THEN status ELSE "failed"
  /\ UNCHANGED <<ir, patterns, toConvert, remarks, output, ndebug, target, useROCM>>

\* The worklist is empty: the legalized module is the output.
Finish ==
  /\ status = "running"
  /\ pc > Len(toConvert)
  /\ status' = "success"
  /\ output' = ir
  /\ UNCHANGED <<ir, patterns, toConvert, pc, remarks, ndebug, target, useROCM>>

----------------------------------------------------------------------------
(* Input programs of the GPU path *)

Symbols == <<"s0", "s1">>

MemRefTypes ==
  {[elementType |-> "f32", memorySpace |-> 0, hasStaticShape |-> TRUE],
   [elementType |-> "i32", memorySpace |-> 3, hasStaticShape |-> FALSE]}

BindingDecl(i, idx) ==
  [name |-> "IREE::HAL::InterfaceBindingOp", parent |-> 0, erased |-> FALSE, repl |-> <<>>,
   loc |-> i, sym_name |-> Symbols[i], binding |-> idx[i]]

GPUFunc(i, vis, rc) ==
  [name |-> "FuncOp", parent |-> 0, erased |-> FALSE, repl |-> <<>>, loc |-> i,
   attrs |-> [n \in {"sym_name", "type", "sym_visibility"} |->
                CASE n = "sym_name" -> "entry"
                  [] n = "type" -> "() -> ()"
                  [] OTHER -> vis],
   regionTypesConvertible |-> rc]

Subspan(i, f, s) ==
  [name |-> "IREE::HAL::InterfaceBindingSubspanOp", parent |-> f, erased |-> FALSE,
   repl |-> <<>>, loc |-> i, binding |-> s.sym, type |-> s.type]

SubspanAlphabet == [sym : {Symbols[i] : i \in DOMAIN Symbols}, type : MemRefTypes]

FuncAt == Len(Symbols) + 1

BindingProgram(idx, vis, rc, body) ==
  [i \in 1..(FuncAt + Len(body)) |->
     IF i < FuncAt THEN BindingDecl(i, idx)
     ELSE IF i = FuncAt THEN GPUFunc(i, vis, rc)
     ELSE Subspan(i, FuncAt, body[i - FuncAt])]

BindingPrograms ==
  {BindingProgram(idx, vis, rc, body) :
     idx \in [DOMAIN Symbols -> 0..MaxBinding],
     vis \in {"public", "private"},
     rc \in BOOLEAN,
     body \in UNION {[1..n -> SubspanAlphabet] : n \in 0..MaxRefs}}

\* The axis attribute is a 64-bit index attribute.
AxisInputs ==
  {Int64(0, -1), Int64(0, 0), Int64(0, 1), Int64(0, 2), Int64(0, 3), Int64(1, 0)}

QueryKinds ==
  {"IREE::HAL::InterfaceWorkgroupIDOp", "IREE::HAL::InterfaceWorkgroupCountOp",
   "IREE::HAL::InterfaceWorkgroupSizeOp"}

Query(i, f, q) ==
  [name |-> q.kind, parent |-> f, erased |-> FALSE, repl |-> <<>>, loc |-> i,
   dimension |-> q.dimension]

WorkgroupProgram(body) ==
  [i \in 1..(1 + Len(body)) |->
     IF i = 1 THEN GPUFunc(1, "public", TRUE) ELSE Query(i, 1, body[i - 1])]

WorkgroupPrograms ==
  {WorkgroupProgram(body) :
     body \in UNION {[1..n -> [kind : QueryKinds, dimension : AxisInputs]] :
                       n \in 1..MaxQueries}}

----------------------------------------------------------------------------
(* Input programs of the VM path *)

\* SSA values: a block argument of the enclosing function, or the result of
\* the operation def.
Arg(n) == [def |-> 0, arg |-> n]
Result(id) == [def |-> id, arg |-> 0]

SrcOp(n, i, p) == [name |-> n, parent |-> p, erased |-> FALSE, repl |-> <<>>, loc |-> i]

\* Module programs: a chain of nested containers, each a module or another
\* region-holding operation, each closed by its terminator.
ModuleProgram(kinds, names) ==
  LET d == Len(kinds)
  IN [i \in 1..(2 * d) |->
        IF i <= d
        THEN SrcOp(kinds[i], i, i - 1) @@ [sym_name |-> names[i]]
        ELSE LET l == 2 * d - i + 1
             IN SrcOp(IF kinds[l] = "ModuleOp" THEN "ModuleTerminatorOp" ELSE "test.terminator",
                      i, l)]

ModulePrograms ==
  UNION {{ModuleProgram(kinds, names) :
            kinds \in [1..d -> {"ModuleOp", "test.region"}],
            names \in [1..d -> {"", "m"}]} : d \in 1..MaxDepth}

FloatType == [kind |-> "float", width |-> 32, signedness |-> "none"]
IndexType == [kind |-> "index", width |-> 0, signedness |-> "signless"]
VectorType == [kind |-> "vector", width |-> 32, signedness |-> "signless"]

\* An attribute that is no IntegerAttr.
OtherAttr(k) == [kind |-> k, type |-> FloatType, hi |-> 0, lo |-> 0]

StrAttr(k, v) == [kind |-> k, value |-> v]

\* The dictionary of the attributes that are present in a choice.
AttrDict(c) == [n \in {m \in DOMAIN c : c[m].kind # "absent"} |-> c[n]]

FuncAttrChoices ==
  [{"sym_name"} -> {StrAttr("string", "f")}]
  \X [{"iree.reflection"} -> {StrAttr("absent", ""), StrAttr("dict", "f=io")}]
  \X [{"sym_visibility"} -> {StrAttr("absent", ""), StrAttr("string", "private"),
                             StrAttr("string", "public")}]
  \X [{"noinline"} -> {StrAttr("absent", ""), StrAttr("unit", "")}]
  \X [{"iree.module.export"} -> {StrAttr("absent", ""), StrAttr("unit", ""),
                                 StrAttr("string", "renamed"), StrAttr("integer", "1")}]

FuncAttrDicts == {AttrDict(c[1] @@ c[2] @@ c[3] @@ c[4] @@ c[5]) : c \in FuncAttrChoices}

FuncTypes ==
  {[inputs |-> <<>>, results |-> <<>>],
   [inputs |-> <<IntegerType(32)>>, results |-> <<IntegerType(32)>>],
   [inputs |-> <<IntegerType(1), IntegerType(64)>>, results |-> <<>>],
   [inputs |-> <<IntegerType(32)>>, results |-> <<FloatType>>]}

\* module { module @m { func @f { body; return } } }: operations 1..3 are the
\* two modules and the function, the body follows, then the terminators.
VMProgram(attrs, type, body) ==
  LET n == Len(body)
  IN [i \in 1..(n + 6) |->
        CASE i = 1 -> SrcOp("ModuleOp", 1, 0) @@ [sym_name |-> ""]
          [] i = 2 -> SrcOp("ModuleOp", 2, 1) @@ [sym_name |-> "m"]
          [] i = 3 -> SrcOp("FuncOp", 3, 2) @@ [attrs |-> attrs, type |-> type]
          [] i > 3 /\ i <= n + 3 -> SrcOp(body[i - 3].name, i, 3) @@ body[i - 3]
          [] i = n + 4 -> SrcOp("ReturnOp", i, 3) @@ [operands |-> <<>>]
          [] i = n + 5 -> SrcOp("ModuleTerminatorOp", i, 2)
          [] i = n + 6 -> SrcOp("ModuleTerminatorOp", i, 1)]

FuncPrograms == {VMProgram(attrs, type, <<>>) : attrs \in FuncAttrDicts, type \in FuncTypes}

PlainFuncAttrs == AttrDict([n \in {"sym_name"} |-> StrAttr("string", "f")])
PlainFuncType == [inputs |-> <<IntegerType(32), IntegerType(32)>>, results |-> <<>>]

ConstantAttrs ==
  {IntegerAttr(1, 0), IntegerAttr(1, 1), IntegerAttr(8, 0), IntegerAttr(8, 5),
   IntegerAttr(64, 0), IntegerAttr(64, 7), OtherAttr("float"), OtherAttr("dense")}
  \cup {IntegerAttr(32, s) : s \in (-MaxConst..MaxConst) \cup {2147483647, -2147483647}}

Predicates == {"eq", "ne", "slt", "sle", "sgt", "sge", "ult", "ule", "ugt", "uge"}

\* Shift amounts, as the signed reading of the 32-bit constant.
ShiftAmounts == {0, 1, 31, 32, 33, 288, 65541, -1}

ShiftTypes == {IntegerType(32), IntegerType(64), IntegerType(16), IntegerType(1),
               IndexType, VectorType}

ConstantBody(a) == [name |-> "ConstantOp", value |-> a]
CmpIBody(p, l, r) == [name |-> "CmpIOp", predicate |-> p, operands |-> <<l, r>>]
ShiftBody(t, l, r) == [name |-> "ShiftLeftOp", type |-> t, operands |-> <<l, r>>]

BinaryBody(n, l, r) == [name |-> n, type |-> IntegerType(32), operands |-> <<l, r>>]
SelectBody(c, t, f) == [name |-> "SelectOp", operands |-> <<c, t, f>>]
CallBody(callee, ts, args) ==
  [name |-> "CallOp", callee |-> callee, resultTypes |-> ts, operands |-> args]

\* An operation of a dialect the target leaves alone, with one result of type t.
OtherDialectBody(t) == [name |-> "OtherDialectOp", type |-> t]

CallResultTypes ==
  {<<>>, <<IntegerType(32)>>, <<IntegerType(1), IntegerType(32)>>, <<IntegerType(64)>>,
   <<IntegerType(32), FloatType>>}

OpBodies ==
  {<<ConstantBody(a)>> : a \in ConstantAttrs}
  \cup {<<BinaryBody(p.root, Arg(0), Arg(1))>> : p \in BinaryArithmeticPatterns}
  \cup {<<SelectBody(Arg(0), Arg(1), Arg(0))>>}
  \cup {<<OtherDialectBody(t), SelectBody(Arg(0), Result(4), v)>> :
          t \in {IntegerType(32), IntegerType(64), FloatType}, v \in {Arg(1), Result(4)}}
  \cup {<<CallBody("g", ts, args)>> : ts \in CallResultTypes, args \in {<<>>, <<Arg(1)>>}}
  \cup {<<CmpIBody(p, Arg(0), Arg(1))>> : p \in Predicates}
  \cup {<<CmpIBody(p, Arg(1), Arg(0))>> : p \in Predicates}
  \cup {<<ConstantBody(IntegerAttr(32, s)), ShiftBody(IntegerType(32), Arg(0), Result(4))>> :
          s \in ShiftAmounts}
  \cup {<<ConstantBody(IntegerAttr(1, s)), ShiftBody(IntegerType(1), Arg(0), Result(4))>> :
          s \in {0, 1}}
  \cup {<<ShiftBody(t, Arg(0), Arg(1))>> : t \in ShiftTypes}

OpPrograms == {VMProgram(PlainFuncAttrs, PlainFuncType, body) : body \in OpBodies}

----------------------------------------------------------------------------
(* The runs *)

InitRun(prog, pats, nd, tgt, rocm) ==
  /\ ir = prog
  /\ patterns = pats
  /\ toConvert = [i \in 1..Len(prog) |-> i]
  /\ pc = 1
  /\ status = "running"
  /\ remarks = {}
  /\ output = <<>>
  /\ ndebug = nd
  /\ target = tgt
  /\ useROCM = rocm

InitGPU ==
  \/ \E prog \in BindingPrograms, nd \in BOOLEAN :
       InitRun(prog, populateLLVMConversionPatterns(FALSE), nd, "llvm", FALSE)
  \/ \E prog \in WorkgroupPrograms, rocm \in BOOLEAN :
       InitRun(prog, populateLLVMConversionPatterns(rocm), FALSE, "llvm", rocm)

InitVM ==
  \/ \E prog \in ModulePrograms \cup OpPrograms :
       InitRun(prog, populateStandardToVMPatterns, FALSE, "vm", FALSE)
  \/ \E prog \in FuncPrograms, nd \in BOOLEAN :
       InitRun(prog, populateStandardToVMPatterns, nd, "vm", FALSE)

Init == InitGPU \/ InitVM

Next ==
  \/ ConvertFuncStep
  \/ ConvertIREEBindingOpStep
  \/ HALInterfaceWorkgroupOpsConverterStep
  \/ ModuleOpConversionStep
  \/ ModuleTerminatorOpConversionStep
  \/ FuncOpConversionStep
  \/ ReturnOpConversionStep
  \/ ConstantOpConversionStep
  \/ CmpIOpConversionStep
  \/ ShiftArithmeticOpConversionStep
  \/ BinaryArithmeticOpConversionStep
  \/ SelectI32OpConversionStep
  \/ CallOpConversionStep
  \/ NoPattern
  \/ Finish

Spec == Init /\ [][Next]_vars

----------------------------------------------------------------------------
(* Properties *)

Ops(n) == {i \in DOMAIN ir : ir[i].name = n}

\* The operations created at the source location of operation i.
CreatedFrom(i) == {j \in DOMAIN ir : j # i /\ ir[j].loc = ir[i].loc}

\* The driver has tried operation i (it is past it, or stopped at it).
Attempted(i) == pc > i \/ (pc = i /\ status # "running")

\* A sequence without its repetitions, first occurrences kept in order.
RECURSIVE Dedup(_)
Dedup(seq) ==
  IF seq = <<>> THEN <<>>
  ELSE LET r == Dedup(SubSeq(seq, 1, Len(seq) - 1))
           x == seq[Len(seq)]
       IN IF \E i \in DOMAIN r : r[i] = x THEN r ELSE Append(r, x)

PositionIn(seq, x) == CHOOSE i \in DOMAIN seq : seq[i] = x

\* The binding references of lowered function f, in document order.
RefsOf(f) ==
  SortedSeq({i \in Ops("IREE::HAL::InterfaceBindingSubspanOp") : ir[i].parent = f})

\* C1 (as claimed): after a successful run, a lowered function whose body
\* references N distinct bindings, first encountered in the order b1..bN, has
\* exactly N pointer parameters, and every replaced reference to bi has
\* parameter i (argument index i - 1) as its base pointer.
C1_SignatureFlattening ==
  (target = "llvm" /\ status = "success") =>
    \A f \in Ops("LLVM::LLVMFuncOp") :
      LET refs == RefsOf(f)
          order == Dedup([i \in DOMAIN refs |-> ir[refs[i]].binding])
      IN /\ Len(ir[f].args) = Len(order)
         /\ \A i \in DOMAIN refs :
              ir[refs[i]].erased =>
                ir[ir[refs[i]].repl[1]].base =
                  [func |-> f, arg |-> PositionIn(order, ir[refs[i]].binding) - 1]

Queries ==
  Ops("IREE::HAL::InterfaceWorkgroupIDOp") \cup Ops("IREE::HAL::InterfaceWorkgroupCountOp")
    \cup Ops("IREE::HAL::InterfaceWorkgroupSizeOp")

ValidAxes == {Int64(0, 0), Int64(0, 1), Int64(0, 2)}

\* The intrinsic the claim names for a backend family, a query kind and an axis.
IntrinsicFor(family, kind, axis) ==
  family \o "::"
    \o (CASE kind = "IREE::HAL::InterfaceWorkgroupIDOp" -> "BlockId"
          [] kind = "IREE::HAL::InterfaceWorkgroupCountOp" -> "GridDim"
          [] kind = "IREE::HAL::InterfaceWorkgroupSizeOp" -> "BlockDim")
    \o (CASE axis = Int64(0, 0) -> "X" [] axis = Int64(0, 1) -> "Y" [] axis = Int64(0, 2) -> "Z")
    \o "Op"

IntrinsicsOf(family) ==
  {IntrinsicFor(family, k, a) :
     k \in {"IREE::HAL::InterfaceWorkgroupIDOp", "IREE::HAL::InterfaceWorkgroupCountOp",
            "IREE::HAL::InterfaceWorkgroupSizeOp"},
     a \in ValidAxes}

\* C7: a query for an axis in {0,1,2} the driver has tried is replaced by the
\* 32-bit intrinsic of the selected backend's family for its kind and axis,
\* sign-extended to 64 bits, the extension replacing the query's result; no
\* intrinsic of the other family is in the module.
C7_WorkgroupIntrinsic ==
  target = "llvm" =>
    /\ \A q \in Queries :
         (ir[q].dimension \in ValidAxes /\ Attempted(q)) =>
           /\ ir[q].erased
           /\ Len(ir[q].repl) = 1
           /\ LET sext == ir[ir[q].repl[1]]
              IN /\ sext.name = "LLVM::SExtOp"
                 /\ sext.type = "i64"
                 /\ ir[sext.operand].name =
                      IntrinsicFor(IF useROCM THEN "ROCDL" ELSE "NVVM",
                                   ir[q].name, ir[q].dimension)
                 /\ ir[sext.operand].type = "i32"
                 /\ CreatedFrom(q) = {sext.operand, ir[q].repl[1]}
    /\ \A i \in DOMAIN ir :
         ir[i].name \notin IntrinsicsOf(IF useROCM THEN "NVVM" ELSE "ROCDL")

\* C7 witness: on the ROCm backend a workgroup-count query for axis 2 has been
\* replaced by sext(ROCDL::GridDimZOp).
C7_Witness ==
  /\ useROCM
  /\ status = "success"
  /\ \E q \in Ops("IREE::HAL::InterfaceWorkgroupCountOp") :
       /\ ir[q].dimension = Int64(0, 2)
       /\ ir[q].erased
       /\ ir[ir[ir[q].repl[1]].operand].name = "ROCDL::GridDimZOp"

\* C8 (as claimed): a query whose axis is outside {0,1,2} is never replaced,
\* nothing is created for it, the driver never gets past it, and the run never
\* succeeds nor produces an output module.
C8_AxisFailure ==
  target = "llvm" =>
    \A q \in Queries :
      ir[q].dimension \notin ValidAxes =>
        /\ ~ir[q].erased
        /\ CreatedFrom(q) = {}
        /\ pc <= q
        /\ status \in {"running", "failed"}
        /\ output = <<>>

\* What a source comparison predicate says: the relation (with its direction)
\* and how the operands are read.
PredicateMeaning(p) ==
  CASE p = "eq" -> [relation |-> "equal", sign |-> "none"]
    [] p = "ne" -> [relation |-> "not-equal", sign |-> "none"]
    [] p = "slt" -> [relation |-> "less", sign |-> "signed"]
    [] p = "sle" -> [relation |-> "less-or-equal", sign |-> "signed"]
    [] p = "sgt" -> [relation |-> "greater", sign |-> "signed"]
    [] p = "sge" -> [relation |-> "greater-or-equal", sign |-> "signed"]
    [] p = "ult" -> [relation |-> "less", sign |-> "unsigned"]
    [] p = "ule" -> [relation |-> "less-or-equal", sign |-> "unsigned"]
    [] p = "ugt" -> [relation |-> "greater", sign |-> "unsigned"]
    [] p = "uge" -> [relation |-> "greater-or-equal", sign |-> "unsigned"]

\* What a VM comparison instruction computes.
InstructionMeaning(n) ==
  CASE n = "IREE::VM::CmpEQI32Op" -> [relation |-> "equal", sign |-> "none"]
    [] n = "IREE::VM::CmpNEI32Op" -> [relation |-> "not-equal", sign |-> "none"]
    [] n = "IREE::VM::CmpLTI32SOp" -> [relation |-> "less", sign |-> "signed"]
    [] n = "IREE::VM::CmpLTI32UOp" -> [relation |-> "less", sign |-> "unsigned"]
    [] n = "IREE::VM::CmpLTEI32SOp" -> [relation |-> "less-or-equal", sign |-> "signed"]
    [] n = "IREE::VM::CmpLTEI32UOp" -> [relation |-> "less-or-equal", sign |-> "unsigned"]
    [] n = "IREE::VM::CmpGTI32SOp" -> [relation |-> "greater", sign |-> "signed"]
    [] n = "IREE::VM::CmpGTI32UOp" -> [relation |-> "greater", sign |-> "unsigned"]
    [] n = "IREE::VM::CmpGTEI32SOp" -> [relation |-> "greater-or-equal", sign |-> "signed"]
    [] n = "IREE::VM::CmpGTEI32UOp" -> [relation |-> "greater-or-equal", sign |-> "unsigned"]
    [] OTHER -> [relation |-> "none", sign |-> "none"]

\* C2: every comparison the driver has tried is replaced by exactly one VM
\* comparison with the relation, direction and signedness of its predicate
\* and with the left and right operands in the source order.
C2_PredicateFidelity ==
  target = "vm" =>
    \A c \in Ops("CmpIOp") :
      Attempted(c) =>
        /\ ir[c].erased
        /\ Len(ir[c].repl) = 1
        /\ CreatedFrom(c) = {ir[c].repl[1]}
        /\ InstructionMeaning(ir[ir[c].repl[1]].name) = PredicateMeaning(ir[c].predicate)
        /\ ir[ir[c].repl[1]].operands = ir[c].operands

\* C2 witness: an unsigned less-or-equal comparison of (arg1, arg0) has been
\* lowered.
C2_Witness ==
  \E c \in Ops("CmpIOp") :
    /\ ir[c].predicate = "ule"
    /\ ir[c].operands = <<Arg(1), Arg(0)>>
    /\ ir[c].erased
    /\ status = "success"

\* The constant operation that defines the shift amount of shift s in the
\* source program, 0 when the amount is no constant.
AmountConstant(s) ==
  LET rhs == ir[s].operands[2]
  IN IF rhs.def # 0 /\ ir[rhs.def].name = "ConstantOp" /\ ir[rhs.def].value.kind = "integer"
     THEN rhs.def ELSE 0

\* The shift is one the claim lets succeed: a signless 32-bit integer result
\* and a constant amount of at most 32 (read unsigned).
ShiftSupported(s) ==
  /\ ir[s].type = IntegerType(32)
  /\ AmountConstant(s) # 0
  /\ ir[AmountConstant(s)].value.hi = 0
  /\ ir[AmountConstant(s)].value.lo <= 32

\* C3: a shift that is not supported is never rewritten: nothing is created
\* for it, the driver never gets past it and the run does not succeed; a
\* rewritten shift is a supported one, replaced by one VM shift of the same
\* left operand that carries exactly the source constant amount.
C3_ShiftBound ==
  target = "vm" =>
    \A s \in Ops("ShiftLeftOp") :
      /\ ~ShiftSupported(s) =>
           /\ ~ir[s].erased
           /\ CreatedFrom(s) = {}
           /\ pc <= s
           /\ status \in {"running", "failed"}
      /\ ir[s].erased =>
           /\ Len(ir[s].repl) = 1
           /\ CreatedFrom(s) = {ir[s].repl[1]}
           /\ ir[ir[s].repl[1]].name = "IREE::VM::ShlI32Op"
           /\ ir[ir[s].repl[1]].amount = ir[AmountConstant(s)].value.lo
           /\ ir[ir[s].repl[1]].operands = <<ir[s].operands[1]>>

\* C3 witness: the run has failed at a 32-bit shift by the constant 33.
C3_Witness ==
  /\ status = "failed"
  /\ pc <= Len(toConvert)
  /\ ir[Current].name = "ShiftLeftOp"
  /\ ir[Current].type = IntegerType(32)
  /\ AmountConstant(Current) # 0
  /\ ir[AmountConstant(Current)].value.hi = 0
  /\ ir[AmountConstant(Current)].value.lo = 33
  /\ ~ir[Current].erased

\* C4 (as claimed): an accepted constant of value 0 is replaced by the
\* zero-constant instruction, any other by the general 32-bit constant
\* instruction whose value has the bits of the source value (true is 1).
C4_ZeroSpecialization ==
  target = "vm" =>
    \A c \in Ops("ConstantOp") :
      ir[c].erased =>
        IF ir[c].value.hi = 0 /\ ir[c].value.lo = 0
        THEN ir[ir[c].repl[1]].name = "IREE::VM::ConstI32ZeroOp"
        ELSE /\ ir[ir[c].repl[1]].name = "IREE::VM::ConstI32Op"
             /\ Bits32(ir[ir[c].repl[1]].value) = [hi |-> ir[c].value.hi, lo |-> ir[c].value.lo]

\* The source function a VM function was converted from.
SourceOf(f) == CHOOSE i \in Ops("FuncOp") : ir[i].loc = ir[f].loc

\* C5: besides its name (and type), a VM function carries exactly the
\* attributes "iree.reflection" and "sym_visibility" that its source function
\* has, each with the source's value.
C5_AttributeAllowList ==
  target = "vm" =>
    \A f \in Ops("IREE::VM::FuncOp") :
      LET src == ir[SourceOf(f)]
          kept == {"iree.reflection", "sym_visibility"} \cap DOMAIN src.attrs
      IN /\ DOMAIN ir[f].attrs \ {"sym_name"} = kept
         /\ \A n \in kept : ir[f].attrs[n] = src.attrs[n]
         /\ "iree.module.export" \notin DOMAIN ir[f].attrs

\* C5 witness: a function with reflection metadata, a visibility, an export
\* marker and one more attribute has been converted.
C5_Witness ==
  \E f \in Ops("IREE::VM::FuncOp") :
    /\ {"iree.reflection", "sym_visibility", "iree.module.export", "noinline"}
         \subseteq DOMAIN ir[SourceOf(f)].attrs
    /\ ir[SourceOf(f)].erased
    /\ status = "success"

ExportsOf(i) == {e \in Ops("IREE::VM::ExportOp") : ir[e].loc = ir[i].loc}

\* C6: a converted function has one export declaration, referring to the new
\* VM function, when its source carries the export marker as a string (the
\* export is named by the string) or as a unit attribute (it is named by the
\* function), and none when the source carries no marker; a function that is
\* not converted has none.
C6_ExportDeclaration ==
  target = "vm" =>
    \A i \in Ops("FuncOp") :
      LET marked == "iree.module.export" \in DOMAIN ir[i].attrs
          marker == ir[i].attrs["iree.module.export"]
      IN /\ ~ir[i].erased => ExportsOf(i) = {}
         /\ (ir[i].erased /\ ~marked) => ExportsOf(i) = {}
         /\ (ir[i].erased /\ marked /\ marker.kind \in {"string", "unit"}) =>
              /\ Cardinality(ExportsOf(i)) = 1
              /\ \A e \in ExportsOf(i) :
                   /\ ir[ir[e].function_ref].name = "IREE::VM::FuncOp"
                   /\ ir[ir[e].function_ref].loc = ir[i].loc
                   /\ ir[e].export_name =
                        IF marker.kind = "string" THEN marker.value
                        ELSE ir[i].attrs["sym_name"].value

\* C6 witness: a function marked with the string "renamed" has been
\* converted and exported.
C6_Witness ==
  \E i \in Ops("FuncOp") :
    /\ "iree.module.export" \in DOMAIN ir[i].attrs
    /\ ir[i].attrs["iree.module.export"] = StrAttr("string", "renamed")
    /\ ir[i].erased
    /\ ExportsOf(i) # {}
    /\ status = "success"

\* An outermost module: it has no parent, or its parent is not a module.
IsOutermost(m) == ir[m].parent = 0 \/ ir[ir[m].parent].name # "ModuleOp"

\* C9: an outermost module is never rewritten and neither is its terminator; a
\* VM module stems from a module nested directly in a module, stands in its
\* place and holds its body; a rewritten terminator sits in a VM module.
C9_OutermostUntouched ==
  target = "vm" =>
    /\ \A m \in Ops("ModuleOp") :
         IsOutermost(m) =>
           /\ ~ir[m].erased
           /\ CreatedFrom(m) = {}
           /\ \A t \in Ops("ModuleTerminatorOp") :
                ir[t].parent = m => (~ir[t].erased /\ CreatedFrom(t) = {})
    /\ \A v \in Ops("IREE::VM::ModuleOp") :
         \E m \in Ops("ModuleOp") :
           /\ ir[m].loc = ir[v].loc
           /\ ir[m].erased
           /\ ir[m].parent # 0
           /\ ir[ir[m].parent].name = "ModuleOp"
           /\ ir[v].parent = ir[m].parent
           /\ \A i \in DOMAIN ir : ir[i].parent = m => ir[i].erased
    /\ \A t \in Ops("ModuleTerminatorOp") :
         ir[t].erased => ir[ir[t].parent].name = "IREE::VM::ModuleOp"
    /\ \A t \in Ops("IREE::VM::ModuleTerminatorOp") :
         ir[ir[t].parent].name = "IREE::VM::ModuleOp"

\* C9 witness: a run over three nested modules has ended; the middle one was
\* rewritten with its terminator, the outermost one and its terminator were
\* not.
C9_Witness ==
  /\ status = "success"
  /\ \E o, m, i \in Ops("ModuleOp") :
       /\ ir[o].parent = 0 /\ ~ir[o].erased
       /\ ir[m].parent = o /\ ir[m].erased
       /\ ir[i].loc = m + 1 /\ ~ir[i].erased
       /\ ir[ir[i].parent].name = "IREE::VM::ModuleOp"
       /\ \E t \in Ops("ModuleTerminatorOp") : ir[t].parent = o /\ ~ir[t].erased
       /\ \E t \in Ops("ModuleTerminatorOp") : ir[t].erased

\* The constant is one the claim lets through: a 1-bit or 32-bit integer.
ConstantAccepted(c) ==
  /\ ir[c].value.kind = "integer"
  /\ ir[c].value.type.width \in {1, 32}

DynamicRefs ==
  {r \in Ops("IREE::HAL::InterfaceBindingSubspanOp") : ~ir[r].type.hasStaticShape}

\* C11 (as claimed): once the driver has tried a binding reference whose type
\* is not statically shaped, the run has ended in a failure (fatal or
\* unsupported input): the driver never gets past such a reference, and no run
\* reported as successful holds one.
C11_DynamicShapeFatal ==
  target = "llvm" =>
    \A r \in DynamicRefs :
      /\ Attempted(r) => status \in {"crashed", "failed"}
      /\ pc <= r
      /\ status # "success"

\* The same in a build that keeps its assertions.
C11_DynamicShapeFatal_Assertions == ~ndebug => C11_DynamicShapeFatal

\* What the patterns registered for the current operation return on it.
Attempts ==
  IF ~Active THEN {}
  ELSE LET id == Current
           operands == remapValues(ir, ir[id].operands)
       IN CASE Registered("ConvertFunc") # {} -> {ConvertFunc(ir, id)}
            [] Registered("ConvertIREEBindingOp") # {} ->
                 {ConvertIREEBindingOp(ir, id, ndebug, ub) : ub \in {"crash", "garbage"}}
            [] Registered("HALInterfaceWorkgroupOpsConverter") # {} ->
                 {HALInterfaceWorkgroupOpsConverter(ir, id, p) :
                    p \in Registered("HALInterfaceWorkgroupOpsConverter")}
            [] Registered("ModuleOpConversion") # {} -> {ModuleOpConversion(ir, id)}
            [] Registered("ModuleTerminatorOpConversion") # {} ->
                 {ModuleTerminatorOpConversion(ir, id)}
            [] Registered("FuncOpConversion") # {} -> {FuncOpConversion(ir, id, ndebug)}
            [] Registered("ReturnOpConversion") # {} -> {ReturnOpConversion(ir, id, operands)}
            [] Registered("ConstantOpConversion") # {} -> {ConstantOpConversion(ir, id)}
            [] Registered("CmpIOpConversion") # {} -> {CmpIOpConversion(ir, id, operands)}
            [] Registered("ShiftArithmeticOpConversion") # {} ->
                 {ShiftArithmeticOpConversion(ir, id, operands)}
            [] Registered("BinaryArithmeticOpConversion") # {} ->
                 {BinaryArithmeticOpConversion(ir, id, operands, p) :
                    p \in Registered("BinaryArithmeticOpConversion")}
            [] Registered("SelectI32OpConversion") # {} ->
                 {SelectI32OpConversion(ir, id, operands)}
            [] Registered("CallOpConversion") # {} -> {CallOpConversion(ir, id, operands)}
            [] OTHER -> {}

\* C12: when the pattern tried on the current operation returns failure, the
\* step leaves the IR as it was: whatever the pattern changed before declining
\* it changed through the rewriter, whose undoing restores the IR, and it
\* changed nothing behind the rewriter's back.
C12_FailureLeavesIR ==
  [][(\E r \in Attempts : r.result = "failure") =>
       /\ ir' = ir
       /\ \A r \in Attempts : r.result = "failure" => r.undone = ir]_vars

\* C12 witness: the run has failed at an entry-point function whose region
\* types do not convert, after the pattern had created the lowered function
\* and moved the body into it; no lowered function is left and the body is
\* still the source function's.
C12_Witness ==
  /\ status = "failed"
  /\ pc <= Len(toConvert)
  /\ ir[Current].name = "FuncOp"
  /\ target = "llvm"
  /\ isPublic(ir[Current])
  /\ ~ir[Current].regionTypesConvertible
  /\ ConvertFunc(ir, Current).result = "failure"
  /\ ConvertFunc(ir, Current).ir # ir
  /\ Ops("LLVM::LLVMFuncOp") = {}
  /\ RefsOf(Current) # <<>>
  /\ \A i \in DOMAIN RefsOf(Current) : ~ir[RefsOf(Current)[i]].erased

\* The function a binding reference is in.
EnclosingFunc(r) == ir[r].parent

\* C13 (as claimed): a binding reference is replaced only when its enclosing
\* function is in the lowered form, the source function erased in its favour;
\* a reference that is not under a lowered function is unchanged, with nothing
\* created for it; and the base pointer of the descriptor that replaces a
\* reference is one of the parameters of the enclosing lowered function, which
\* has at least one.
C13_BindingAfterFunction ==
  target = "llvm" =>
    \A r \in Ops("IREE::HAL::InterfaceBindingSubspanOp") :
      LET f == EnclosingFunc(r)
      IN /\ ir[f].name # "LLVM::LLVMFuncOp" => (~ir[r].erased /\ CreatedFrom(r) = {})
         /\ ir[r].erased =>
              /\ ir[f].name = "LLVM::LLVMFuncOp"
              /\ \E g \in Ops("FuncOp") : ir[g].erased /\ ir[g].loc = ir[f].loc /\ g < r
              /\ Len(ir[f].args) >= 1
              /\ LET base == ir[ir[r].repl[1]].base
                 IN base.func = f /\ base.arg \in 0..(Len(ir[f].args) - 1)

\* The part of C13 about the order of the two rewrites, without the base
\* pointer.
C13_Order ==
  target = "llvm" =>
    \A r \in Ops("IREE::HAL::InterfaceBindingSubspanOp") :
      LET f == EnclosingFunc(r)
      IN /\ ir[f].name # "LLVM::LLVMFuncOp" => (~ir[r].erased /\ CreatedFrom(r) = {})
         /\ ir[r].erased =>
              /\ ir[f].name = "LLVM::LLVMFuncOp"
              /\ \E g \in Ops("FuncOp") : ir[g].erased /\ ir[g].loc = ir[f].loc /\ g < r
              /\ Len(ir[f].args) >= 1
              /\ ir[ir[r].repl[1]].base.func = f

====
